---- MODULE Spec2Model ----
(***************************************************************************)
(* A model of src/src/index.ts: an MCP server that registers six tools,    *)
(* one prompt and one resource on an McpServer and serves invocations of   *)
(* them.  The handlers and the schemas are translated from index.ts.  The  *)
(* registry, the schema validator and the dispatcher that call them live   *)
(* in libraries outside src/ and are modelled from spec.md sections 4.1 to *)
(* 4.4 and 5.                                                              *)
(*                                                                         *)
(* The module is ASCII: the Korean message texts of the source are written *)
(* in Revised Romanization, the degree sign as (deg), the waving-hand      *)
(* emoji as :wave: and the code fence of three backquotes as three tildes. *)
(*                                                                         *)
(* A JavaScript number is modelled by the integer that is ten times its    *)
(* value, so that one decimal digit is representable (1.5 is 15).          *)
(***************************************************************************)
EXTENDS Integers, Sequences, FiniteSets, Bags, TLC

VARIABLES
    registry,   \* the registered descriptors, in registration order
    registered, \* the latest register call: its descriptor and its error, or none
    started,    \* the transport is connected
    hfToken,    \* process.env.HF_TOKEN
    inflight,   \* the bag of the invocations suspended at an await
    hung,       \* how many suspended invocations will never be answered
    last        \* the invocation that has just finished, until its response is sent

vars == <<registry, registered, started, hfToken, inflight, hung, last>>

(***************************************************************************)
(* Bounds of the model.                                                    *)
(***************************************************************************)
\* The number of invocations that may be suspended on I/O at the same time.
MaxInFlight == 2

(***************************************************************************)
(* Values: the arguments a caller sends are JSON values.                   *)
(***************************************************************************)
Str(s) == [t |-> "string", s |-> s, n |-> 0]
\* The number k/10.
Tenths(k) == [t |-> "number", s |-> "", n |-> k]
\* The integer k.
Num(k) == Tenths(10 * k)
NoValue == [t |-> "undefined", s |-> "", n |-> 0]
NoArgs == [f \in {} |-> NoValue]

Abs(k) == IF k < 0 THEN -k ELSE k

RECURSIVE Rep(_, _)
Rep(s, k) == IF k = 0 THEN "" ELSE s \o Rep(s, k - 1)

(***************************************************************************)
(* Number to string, as a template literal does it.  FormatQuot(a, b) is   *)
(* the text of the number a/b for b # 0: its sign, its integer part and    *)
(* the digits of the fraction by long division.  Every quotient the model  *)
(* forms has a decimal expansion that ends within 17 digits and is        *)
(* the shortest text that reads back as the same double, which is what     *)
(* Number.prototype.toString prints; -0 prints as "0".                     *)
(***************************************************************************)
RECURSIVE FracDigits(_, _, _)
FracDigits(r, b, k) ==
    IF r = 0 \/ k = 0 THEN ""
    ELSE ToString((10 * r) \div b) \o FracDigits((10 * r) % b, b, k - 1)

FormatQuot(a, b) ==
    LET neg == (a < 0 /\ b > 0) \/ (a > 0 /\ b < 0)
        p == Abs(a)
        q == Abs(b)
        frac == FracDigits(p % q, q, 17)
    IN  (IF neg THEN "-" ELSE "") \o ToString(p \div q)
        \o (IF frac = "" THEN "" ELSE "." \o frac)

\* The text of a number value.
NumText(v) == FormatQuot(v.n, 10)

Pad2(k) == IF k < 10 THEN "0" \o ToString(k) ELSE ToString(k)

(***************************************************************************)
(* Schemas.  A schema is the sequence of its fields in declaration order;  *)
(* a field records what the zod expression of the source declares.  Bounds *)
(* of numbers are in tenths, like the numbers.                             *)
(***************************************************************************)
Field(name, type) ==
    [name |-> name, type |-> type, required |-> TRUE,
     hasDefault |-> FALSE, default |-> NoValue,
     int |-> FALSE, hasMin |-> FALSE, min |-> 0, hasMax |-> FALSE, max |-> 0,
     enum |-> {}]

Optional(f) == [f EXCEPT !.required = FALSE]
Default(f, v) == [f EXCEPT !.required = FALSE, !.hasDefault = TRUE, !.default = v]
Min(f, k) == [f EXCEPT !.hasMin = TRUE, !.min = k]
Max(f, k) == [f EXCEPT !.hasMax = TRUE, !.max = k]
Integer(f) == [f EXCEPT !.int = TRUE]
Enum(name, members) == [Field(name, "enum") EXCEPT !.enum = members]

\* greetInputSchema with the default of language set to ko.
greetInputSchemaDefaultKo ==
    << Field("name", "string"),
       Default(Optional(Enum("language", {"ko", "en"})), Str("ko")) >>

greetInputSchema ==
    << Field("name", "string"),
       Default(Optional(Enum("language", {"ko", "en"})), Str("en")) >>

\* calculatorInputSchema with operator left optional.
calculatorInputSchemaOptionalOperator ==
    << Field("number1", "number"),
       Field("number2", "number"),
       Optional(Enum("operator", {"+", "-", "*", "/"})) >>

\* calculatorInputSchema with operator declared as any string.
calculatorInputSchemaAnyOperator ==
    << Field("number1", "number"),
       Field("number2", "number"),
       Field("operator", "string") >>

calculatorInputSchema ==
    << Field("number1", "number"),
       Field("number2", "number"),
       Enum("operator", {"+", "-", "*", "/"}) >>

timeInputSchema == << Field("timezone", "string") >>

geocodeInputSchema == << Field("address", "string") >>

\* getWeatherInputSchema with the upper bound of latitude mistyped as 91.
getWeatherInputSchemaLatitude91 ==
    << Max(Min(Field("latitude", "number"), -900), 910),
       Max(Min(Field("longitude", "number"), -1800), 1800),
       Default(Optional(Max(Min(Integer(Field("forecastDays", "number")), 10), 160)),
               Num(7)) >>

getWeatherInputSchema ==
    << Max(Min(Field("latitude", "number"), -900), 900),
       Max(Min(Field("longitude", "number"), -1800), 1800),
       Default(Optional(Max(Min(Integer(Field("forecastDays", "number")), 10), 160)),
               Num(7)) >>

\* For a string field min and max bound the length (in characters, not tenths).
generateImageInputSchema == << Max(Min(Field("prompt", "string"), 1), 1000) >>

codeReviewArgsSchema ==
    << Field("code", "string"),
       Optional(Field("language", "string")),
       Optional(Field("focus", "string")) >>

\* registerResource takes no input schema.
serverInfoInputSchema == << >>

\* z.object({content: z.array(z.object({type: z.literal('text'), text: z.string()}))})
TextContentOutputSchema == [declared |-> TRUE, literal |-> "text"]
NoOutputSchema == [declared |-> FALSE, literal |-> ""]

(***************************************************************************)
(* The schema validator (spec.md 4.1).  It walks the declared fields in    *)
(* order, applies the default of an absent optional field, checks the type *)
(* and every declared constraint, and collects every error.  Arguments the *)
(* schema does not declare are dropped, not rejected.                      *)
(***************************************************************************)
FieldError(path, code, message) == [path |-> path, code |-> code, message |-> message]

CheckString(f, v) ==
    IF v.t # "string"
    THEN << FieldError(f.name, "invalid_type", "Expected string, received " \o v.t) >>
    ELSE (IF f.hasMin /\ Len(v.s) < f.min
          THEN << FieldError(f.name, "too_small",
                    "String must contain at least " \o ToString(f.min) \o " character(s)") >>
          ELSE << >>)
         \o
         (IF f.hasMax /\ Len(v.s) > f.max
          THEN << FieldError(f.name, "too_big",
                    "String must contain at most " \o ToString(f.max) \o " character(s)") >>
          ELSE << >>)

CheckNumber(f, v) ==
    IF v.t # "number"
    THEN << FieldError(f.name, "invalid_type", "Expected number, received " \o v.t) >>
    ELSE (IF f.int /\ v.n % 10 # 0
          THEN << FieldError(f.name, "invalid_type", "Expected integer, received float") >>
          ELSE << >>)
         \o
         (IF f.hasMin /\ v.n < f.min
          THEN << FieldError(f.name, "too_small",
                    "Number must be greater than or equal to " \o FormatQuot(f.min, 10)) >>
          ELSE << >>)
         \o
         (IF f.hasMax /\ v.n > f.max
          THEN << FieldError(f.name, "too_big",
                    "Number must be less than or equal to " \o FormatQuot(f.max, 10)) >>
          ELSE << >>)

\* Enum membership is an exact, case-sensitive match.
CheckEnum(f, v) ==
    IF v.t = "string" /\ v.s \in f.enum
    THEN << >>
    ELSE << FieldError(f.name, "invalid_enum_value", "Invalid enum value") >>

CheckField(f, args) ==
    IF f.name \notin DOMAIN args
    THEN IF f.required
         THEN << FieldError(f.name, "invalid_type", "Required") >>
         ELSE << >>
    ELSE CASE f.type = "string" -> CheckString(f, args[f.name])
           [] f.type = "number" -> CheckNumber(f, args[f.name])
           [] f.type = "enum" -> CheckEnum(f, args[f.name])

RECURSIVE CollectErrors(_, _, _)
CollectErrors(schema, args, i) ==
    IF i > Len(schema) THEN << >>
    ELSE CheckField(schema[i], args) \o CollectErrors(schema, args, i + 1)

\* The validated record: the declared fields that are present, and the
\* defaults of the absent ones that declare a default.
Coerce(schema, args) ==
    LET given == {i \in 1..Len(schema) : schema[i].name \in DOMAIN args}
        defaulted == {i \in 1..Len(schema) :
                        schema[i].name \notin DOMAIN args /\ schema[i].hasDefault}
        byName(n) == CHOOSE i \in given \cup defaulted : schema[i].name = n
    IN  [n \in {schema[i].name : i \in given \cup defaulted} |->
            IF byName(n) \in given THEN args[n] ELSE schema[byName(n)].default]

validate(schema, rawValue) ==
    LET errs == CollectErrors(schema, rawValue, 1)
    IN  IF errs = << >>
        THEN [valid |-> TRUE, value |-> Coerce(schema, rawValue), errors |-> << >>]
        ELSE [valid |-> FALSE, value |-> NoArgs, errors |-> errs]

RECURSIVE JoinErrors(_, _)
JoinErrors(errs, i) ==
    IF i > Len(errs) THEN ""
    ELSE (IF i > 1 THEN "; " ELSE "") \o errs[i].path \o ": " \o errs[i].message
         \o JoinErrors(errs, i + 1)

ValidationMessage(errs) == "invalid arguments: " \o JoinErrors(errs, 1)

(***************************************************************************)
(* Content blocks and what a handler hands back.  One record shape serves  *)
(* the text and image blocks of a tool, the message of a prompt (role) and *)
(* the content of a resource (uri).                                        *)
(***************************************************************************)
TextBlock(text) ==
    [type |-> "text", text |-> text, data |-> "", mimeType |-> "", role |-> "", uri |-> ""]
ImageBlock(data, mimeType) ==
    [type |-> "image", text |-> "", data |-> data, mimeType |-> mimeType, role |-> "", uri |-> ""]
Message(role, text) ==
    [type |-> "text", text |-> text, data |-> "", mimeType |-> "", role |-> role, uri |-> ""]
ResourceContent(uri, mimeType, text) ==
    [type |-> "text", text |-> text, data |-> "", mimeType |-> mimeType, role |-> "", uri |-> uri]

StructuredContent(content) == [present |-> TRUE, content |-> content]
NoStructured == [present |-> FALSE, content |-> << >>]

\* A handler returns, throws, or suspends on asynchronous work.
Return(content, structured) ==
    [tag |-> "return", content |-> content, structured |-> structured, message |-> ""]
Throw(message) ==
    [tag |-> "throw", content |-> << >>, structured |-> NoStructured, message |-> message]
Await(call) ==
    [tag |-> "await", content |-> << >>, structured |-> NoStructured, message |-> call]

\* The result shape the tools with an output schema return: one text block,
\* and the same block again as structuredContent.content.
TextResult(text) ==
    Return(<< TextBlock(text) >>, StructuredContent(<< TextBlock(text) >>))

(***************************************************************************)
(* greet                                                                   *)
(***************************************************************************)
greetHandler(a) ==
    LET name == a["name"].s
        greeting == IF a["language"].s = "ko"
                    THEN "annyeonghaseyo, " \o name \o "nim!"
                    ELSE "Hey there, " \o name \o "! :wave: Nice to meet you!"
    IN  TextResult(greeting)

(***************************************************************************)
(* calculator.  number1 and number2 are in tenths, so the sum and the      *)
(* difference are in tenths, the product in hundredths and the quotient is *)
(* the ratio.  The model draws integers only, for which the double         *)
(* arithmetic of the source is exact.                                      *)
(***************************************************************************)
DivisionByZeroMessage == "0euro nanul su eopsseumnida."

CalculatorText(a, resultNum, resultDen, operation) ==
    TextResult(NumText(a["number1"]) \o " " \o a["operator"].s \o " "
               \o NumText(a["number2"]) \o " = " \o FormatQuot(resultNum, resultDen)
               \o " (" \o operation \o ")")

\* What the division prints when the divisor is 0 and nothing stops it.
CalculatorDivisionByZeroText(a) ==
    TextResult(NumText(a["number1"]) \o " / " \o NumText(a["number2"]) \o " = "
               \o (IF a["number1"].n > 0 THEN "Infinity"
                   ELSE IF a["number1"].n < 0 THEN "-Infinity" ELSE "NaN")
               \o " (nanutsem)")

\* calculatorHandler with the zero test on the dividend instead of the divisor.
calculatorHandlerWrongOperand(a) ==
    LET number1 == a["number1"].n
        number2 == a["number2"].n
        operator == a["operator"].s
    IN  CASE operator = "+" -> CalculatorText(a, number1 + number2, 10, "deotsem")
          [] operator = "-" -> CalculatorText(a, number1 - number2, 10, "ppaelsem")
          [] operator = "*" -> CalculatorText(a, number1 * number2, 100, "gopsem")
          [] operator = "/" ->
                IF number1 = 0
                THEN Throw(DivisionByZeroMessage)
                ELSE IF number2 = 0 THEN CalculatorDivisionByZeroText(a)
                ELSE CalculatorText(a, number1, number2, "nanutsem")
          [] OTHER -> Throw("jiwonhaji anneun yeonsanjaimnida: " \o operator)

\* calculatorHandler with the addition computed as a subtraction.
calculatorHandlerPlusAsMinus(a) ==
    LET number1 == a["number1"].n
        number2 == a["number2"].n
        operator == a["operator"].s
    IN  CASE operator = "+" -> CalculatorText(a, number1 - number2, 10, "deotsem")
          [] operator = "-" -> CalculatorText(a, number1 - number2, 10, "ppaelsem")
          [] operator = "*" -> CalculatorText(a, number1 * number2, 100, "gopsem")
          [] operator = "/" ->
                IF number2 = 0
                THEN Throw(DivisionByZeroMessage)
                ELSE CalculatorText(a, number1, number2, "nanutsem")
          [] OTHER -> Throw("jiwonhaji anneun yeonsanjaimnida: " \o operator)

\* calculatorHandler without the test for a zero divisor.
calculatorHandlerNoZeroCheck(a) ==
    LET number1 == a["number1"].n
        number2 == a["number2"].n
        operator == a["operator"].s
    IN  CASE operator = "+" -> CalculatorText(a, number1 + number2, 10, "deotsem")
          [] operator = "-" -> CalculatorText(a, number1 - number2, 10, "ppaelsem")
          [] operator = "*" -> CalculatorText(a, number1 * number2, 100, "gopsem")
          [] operator = "/" ->
                IF number2 = 0 THEN CalculatorDivisionByZeroText(a)
                ELSE CalculatorText(a, number1, number2, "nanutsem")
          [] OTHER -> Throw("jiwonhaji anneun yeonsanjaimnida: " \o operator)

calculatorHandler(a) ==
    LET number1 == a["number1"].n
        number2 == a["number2"].n
        operator == a["operator"].s
    IN  CASE operator = "+" -> CalculatorText(a, number1 + number2, 10, "deotsem")
          [] operator = "-" -> CalculatorText(a, number1 - number2, 10, "ppaelsem")
          [] operator = "*" -> CalculatorText(a, number1 * number2, 100, "gopsem")
          [] operator = "/" ->
                IF number2 = 0
                THEN Throw(DivisionByZeroMessage)
                ELSE CalculatorText(a, number1, number2, "nanutsem")
          [] OTHER -> Throw("jiwonhaji anneun yeonsanjaimnida: " \o operator)

(***************************************************************************)
(* Dates.  An instant is a UTC date and time of day.                       *)
(***************************************************************************)
Instant(y, mo, d, h, mi, sec) == [y |-> y, mo |-> mo, d |-> d, h |-> h, mi |-> mi, sec |-> sec]

IsLeap(y) == (y % 4 = 0 /\ y % 100 # 0) \/ y % 400 = 0

DaysInMonth(y, mo) ==
    IF mo = 2 THEN (IF IsLeap(y) THEN 29 ELSE 28)
    ELSE IF mo \in {4, 6, 9, 11} THEN 30 ELSE 31

NextDay(t) ==
    IF t.d < DaysInMonth(t.y, t.mo) THEN [t EXCEPT !.d = t.d + 1]
    ELSE IF t.mo < 12 THEN [t EXCEPT !.d = 1, !.mo = t.mo + 1]
    ELSE [t EXCEPT !.d = 1, !.mo = 1, !.y = t.y + 1]

PrevDay(t) ==
    IF t.d > 1 THEN [t EXCEPT !.d = t.d - 1]
    ELSE IF t.mo > 1 THEN [t EXCEPT !.d = DaysInMonth(t.y, t.mo - 1), !.mo = t.mo - 1]
    ELSE [t EXCEPT !.d = 31, !.mo = 12, !.y = t.y - 1]

\* The wall clock of a zone whose offset from UTC is a whole number of hours.
InZone(t, offset) ==
    LET h == t.h + offset
    IN  IF h >= 24 THEN [NextDay(t) EXCEPT !.h = h - 24]
        ELSE IF h < 0 THEN [PrevDay(t) EXCEPT !.h = h + 24]
        ELSE [t EXCEPT !.h = h]

\* 0 is Sunday.
DayOfWeek(y, mo, d) ==
    LET shift == << 0, 3, 2, 5, 0, 3, 5, 1, 4, 6, 2, 4 >>
        yy == IF mo < 3 THEN y - 1 ELSE y
    IN  (yy + (yy \div 4) - (yy \div 100) + (yy \div 400) + shift[mo] + d) % 7

WeekdayLong == << "iryoil", "woryoil", "hwayoil", "suyoil", "mogyoil", "geumyoil", "toyoil" >>
WeekdayShort == << "il", "wol", "hwa", "su", "mok", "geum", "to" >>

\* The zones the runtime knows, with their offset at the instants of Clock;
\* Intl.DateTimeFormat throws a RangeError for any other name.
TimeZoneOffset ==
    [z \in {"Asia/Seoul", "UTC", "America/New_York"} |->
        CASE z = "Asia/Seoul" -> 9
          [] z = "UTC" -> 0
          [] z = "America/New_York" -> -5]

\* ko-KR; year numeric, month long, day numeric, weekday long, two-digit
\* hour, minute and second, hour12 false.
FormatDateTime(t, timezone) ==
    LET l == InZone(t, TimeZoneOffset[timezone])
    IN  ToString(l.y) \o "nyeon " \o ToString(l.mo) \o "wol " \o ToString(l.d) \o "il "
        \o WeekdayLong[DayOfWeek(l.y, l.mo, l.d) + 1] \o " "
        \o Pad2(l.h) \o ":" \o Pad2(l.mi) \o ":" \o Pad2(l.sec)

\* toLocaleDateString('ko-KR', {month: 'long', day: 'numeric', weekday: 'short'})
\* of a date-only string, read in a process zone at or east of UTC.
FormatDate(t) ==
    ToString(t.mo) \o "wol " \o ToString(t.d) \o "il ("
    \o WeekdayShort[DayOfWeek(t.y, t.mo, t.d) + 1] \o ")"

\* Date.prototype.toISOString, the milliseconds being 0.
ToISOString(t) ==
    ToString(t.y) \o "-" \o Pad2(t.mo) \o "-" \o Pad2(t.d) \o "T"
    \o Pad2(t.h) \o ":" \o Pad2(t.mi) \o ":" \o Pad2(t.sec) \o ".000Z"

(***************************************************************************)
(* time                                                                    *)
(***************************************************************************)
timeHandler(a, now) ==
    LET timezone == a["timezone"].s
    IN  IF timezone \in DOMAIN TimeZoneOffset
        THEN TextResult(timezone \o "ui hyeonjae sigan: " \o FormatDateTime(now, timezone))
        ELSE Throw("yuhyohaji aneun taimjonimnida: " \o timezone
                   \o ". IANA taimjon ireumeul sayonghaejuseyo (ye: Asia/Seoul, America/New_York)")

(***************************************************************************)
(* The prompt code-review.  An absent or empty language or focus leaves    *)
(* its line out.  The fixed request text of the template (lines 531-558)   *)
(* is given by its five headings.                                          *)
(***************************************************************************)
ReviewRequestText ==
    "=== ribyu yocheong sahang ===\n\n"
    \o "1. kodeu pumjil mit pyojun junsu yeobu\n"
    \o "2. seongneung choejeokhwa ganeungseong\n"
    \o "3. boan chwiyakjeom\n"
    \o "4. gadokseong mit yujibosuseong\n"
    \o "5. gaeseon jean\n\n"
    \o "gak hangmoge daehae guchejeogin yesiwa hamkke seolmyeonghaejuseyo."

codeReviewTemplate(code, language, focus) ==
    LET languageInfo == IF language # ""
                        THEN "peurogeuraeming eoneo: " \o language \o "\n\n" ELSE ""
        focusInfo == IF focus # ""
                     THEN "teukbyeolhi jipjunghal yeongyeok: " \o focus \o "\n\n" ELSE ""
    IN  "daeum kodeureul ribyuhaejuseyo. kodeu pumjil, seongneung, boan, gadokseong, "
        \o "yujibosuseong gwanjeomeseo bunseokhago gaeseonjeomeul jeanhaejuseyo.\n\n"
        \o languageInfo \o focusInfo \o "=== ribyuhal kodeu ===\n\n"
        \o "~~~" \o language \o "\n" \o code \o "\n~~~\n\n"
        \o ReviewRequestText

\* undefined and the empty string are both falsy: an absent argument reads as empty.
codeReviewHandler(a) ==
    LET arg(n) == IF n \in DOMAIN a THEN a[n].s ELSE ""
    IN  Return(<< Message("user", codeReviewTemplate(arg("code"), arg("language"), arg("focus"))) >>,
               NoStructured)

(***************************************************************************)
(* The resource server://info.  The JSON text lists the tools by name.     *)
(***************************************************************************)
serverInfo ==
    [name |-> "typescript-mcp-server", version |-> "1.0.0",
     description |-> "TypeScript MCP seobeo - dayanghan yutilliti dogu jegong"]

toolsData == << "greet", "calculator", "time", "geocode", "get-weather", "generate-image" >>

RECURSIVE JoinNames(_, _)
JoinNames(names, i) ==
    IF i > Len(names) THEN ""
    ELSE (IF i > 1 THEN ",\n" ELSE "") \o "    { \"name\": \"" \o names[i] \o "\" }"
         \o JoinNames(names, i + 1)

serverInfoHandler(now, uptime) ==
    LET text ==
            "{\n  \"server\": {\n"
            \o "    \"name\": \"" \o serverInfo.name \o "\",\n"
            \o "    \"version\": \"" \o serverInfo.version \o "\",\n"
            \o "    \"description\": \"" \o serverInfo.description \o "\",\n"
            \o "    \"startedAt\": \"" \o ToISOString(now) \o "\",\n"
            \o "    \"uptime\": " \o NumText(uptime) \o "\n  },\n"
            \o "  \"tools\": [\n" \o JoinNames(toolsData, 1) \o "\n  ],\n"
            \o "  \"totalTools\": " \o ToString(Len(toolsData)) \o ",\n"
            \o "  \"capabilities\": {\n    \"tools\": true,\n    \"resources\": true,\n"
            \o "    \"prompts\": true\n  }\n}"
    IN  Return(<< ResourceContent("server://info", "application/json", text) >>, NoStructured)

(***************************************************************************)
(* What the network hands back to an awaited call: the promise rejects, or *)
(* it resolves to an HTTP response with a JSON body.                       *)
(***************************************************************************)
Rejected(message) ==
    [kind |-> "reject", message |-> message, status |-> 0, statusText |-> "", body |-> << >>]
\* body is the sequence of the top-level JSON values: empty for null.
Response(status, statusText, body) ==
    [kind |-> "response", message |-> "", status |-> status, statusText |-> statusText,
     body |-> body]

\* response.ok
Ok(r) == r.status >= 200 /\ r.status <= 299

(***************************************************************************)
(* geocode.  Every value the try block throws is an Error, so the catch    *)
(* always takes its first branch.                                          *)
(***************************************************************************)
\* The text of parseFloat(s), for the coordinate strings of GeocodeResponses.
ParseFloatText ==
    [s \in {"37.5665", "126.9780", "-33.8688", "north"} |->
        CASE s = "37.5665" -> "37.5665"
          [] s = "126.9780" -> "126.978"
          [] s = "-33.8688" -> "-33.8688"
          [] s = "north" -> "NaN"]

geocodeStart(a) == Await("fetch")

\* r.body is the JSON array of the results.
geocodeResume(a, r) ==
    LET address == a["address"].s
        tried ==
            IF r.kind = "reject" THEN Throw(r.message)
            ELSE IF ~Ok(r)
            THEN Throw("Nominatim API yocheong silpae: " \o ToString(r.status) \o " "
                       \o r.statusText)
            ELSE IF Len(r.body) = 0
            THEN Throw("jusoreul chajeul su eopsseumnida: " \o address)
            ELSE LET result == r.body[1]
                     lat == ParseFloatText[result.lat]
                     lon == ParseFloatText[result.lon]
                     displayName == IF result.display_name # ""
                                    THEN result.display_name ELSE address
                 IN  TextResult("juso: " \o displayName \o "\nwido: " \o lat
                                \o "\ngyeongdo: " \o lon
                                \o "\njwapyo: (" \o lat \o ", " \o lon \o ")")
    IN  IF tried.tag = "throw"
        THEN Throw("jiokoding silpae: " \o tried.message)
        ELSE tried

(***************************************************************************)
(* get-weather                                                             *)
(***************************************************************************)
weatherCodes ==
    [c \in {0, 1, 2, 3, 45, 48, 51, 53, 55, 56, 57, 61, 63, 65, 66, 67, 71, 73, 75, 77,
            80, 81, 82, 85, 86, 95, 96, 99} |->
        CASE c = 0 -> "malgeum"
          [] c = 1 -> "daechero malgeum"
          [] c = 2 -> "bubunjeogeuro heurim"
          [] c = 3 -> "heurim"
          [] c = 45 -> "angae"
          [] c = 48 -> "seori angae"
          [] c = 51 -> "yakan iseulbi"
          [] c = 53 -> "botong iseulbi"
          [] c = 55 -> "ganghan iseulbi"
          [] c = 56 -> "yakan donggyeol iseulbi"
          [] c = 57 -> "ganghan donggyeol iseulbi"
          [] c = 61 -> "yakan bi"
          [] c = 63 -> "botong bi"
          [] c = 65 -> "ganghan bi"
          [] c = 66 -> "yakan donggyeol bi"
          [] c = 67 -> "ganghan donggyeol bi"
          [] c = 71 -> "yakan nun"
          [] c = 73 -> "botong nun"
          [] c = 75 -> "ganghan nun"
          [] c = 77 -> "nunalgaengi"
          [] c = 80 -> "yakan sonagi"
          [] c = 81 -> "botong sonagi"
          [] c = 82 -> "ganghan sonagi"
          [] c = 85 -> "yakan nun sonagi"
          [] c = 86 -> "ganghan nun sonagi"
          [] c = 95 -> "noeu"
          [] c = 96 -> "ubageul dongbanhan noeu"
          [] c = 99 -> "ganghan ubageul dongbanhan noeu"]

getWeatherDescription(code) ==
    IF code \in DOMAIN weatherCodes THEN weatherCodes[code] ELSE "kodeu " \o ToString(code)

RECURSIVE DailyText(_, _, _)
DailyText(daily, i, n) ==
    IF i > n THEN ""
    ELSE "\n" \o FormatDate(daily.time[i]) \o ":\n"
         \o "  choego-ondo: " \o NumText(daily.temperature_2m_max[i]) \o "(deg)C\n"
         \o "  choejeo-ondo: " \o NumText(daily.temperature_2m_min[i]) \o "(deg)C\n"
         \o "  gangsuryang: " \o NumText(daily.precipitation_sum[i]) \o " mm\n"
         \o "  nalssi: " \o getWeatherDescription(daily.weathercode[i]) \o "\n"
         \o DailyText(daily, i + 1, n)

getWeatherStart(a) == Await("fetch")

\* r.body is << >> for null, else << data >> with data.current_weather and
\* data.daily each a sequence that is empty when the member is missing.
getWeatherResume(a, r) ==
    LET latitude == a["latitude"]
        longitude == a["longitude"]
        forecastDays == IF "forecastDays" \in DOMAIN a THEN a["forecastDays"] ELSE Num(7)
        tried ==
            IF r.kind = "reject" THEN Throw(r.message)
            ELSE IF ~Ok(r)
            THEN Throw("Open-Meteo API yocheong silpae: " \o ToString(r.status) \o " "
                       \o r.statusText)
            ELSE IF Len(r.body) = 0 \/ Len(r.body[1].current_weather) = 0
            THEN Throw("nalssi deiteoreul gajyeool su eopsseumnida.")
            ELSE IF Len(r.body[1].daily) = 0
            THEN Throw("Cannot read properties of undefined (reading 'time')")
            ELSE LET current == r.body[1].current_weather[1]
                     daily == r.body[1].daily[1]
                     days == forecastDays.n \div 10
                     n == IF days < Len(daily.time) THEN days ELSE Len(daily.time)
                 IN  TextResult(
                        "=== hyeonjae nalssi ===\n"
                        \o "wichi: wido " \o NumText(latitude) \o ", gyeongdo "
                        \o NumText(longitude) \o "\n"
                        \o "ondo: " \o NumText(current.temperature) \o "(deg)C\n"
                        \o "nalssi: " \o getWeatherDescription(current.weathercode) \o "\n"
                        \o "pungsok: " \o NumText(current.windspeed) \o " km/h\n"
                        \o "punghyang: " \o NumText(current.winddirection) \o "(deg)\n\n"
                        \o "=== " \o NumText(forecastDays) \o "il yebo ===\n"
                        \o DailyText(daily, 1, n))
    IN  IF tried.tag = "throw"
        THEN Throw("nalssi jeongbo johoe silpae: " \o tried.message)
        ELSE tried

(***************************************************************************)
(* generate-image                                                          *)
(***************************************************************************)
Base64Alphabet ==
    << "A", "B", "C", "D", "E", "F", "G", "H", "I", "J", "K", "L", "M", "N", "O", "P",
       "Q", "R", "S", "T", "U", "V", "W", "X", "Y", "Z", "a", "b", "c", "d", "e", "f",
       "g", "h", "i", "j", "k", "l", "m", "n", "o", "p", "q", "r", "s", "t", "u", "v",
       "w", "x", "y", "z", "0", "1", "2", "3", "4", "5", "6", "7", "8", "9", "+", "/" >>

\* Buffer.from(bytes).toString('base64')
RECURSIVE Base64(_)
Base64(bytes) ==
    LET n == Len(bytes)
        byte(i) == IF i <= n THEN bytes[i] ELSE 0
        word == byte(1) * 65536 + byte(2) * 256 + byte(3)
        digit(k) == Base64Alphabet[((word \div (64 ^ (3 - k))) % 64) + 1]
    IN  IF n = 0 THEN ""
        ELSE digit(0) \o digit(1)
             \o (IF n >= 2 THEN digit(2) ELSE "=")
             \o (IF n >= 3 THEN digit(3) ELSE "=")
             \o (IF n > 3 THEN Base64(SubSeq(bytes, 4, n)) ELSE "")

\* Reads process.env.HF_TOKEN; without it the handler throws before any call.
generateImageStart(a, token) ==
    IF token = ""
    THEN Throw("imiji saengseong silpae: "
               \o "HF_TOKEN hwangyeong byeonsuga seoljeongdoeji anatseumnida.")
    ELSE Await("textToImage")

\* r.body is << bytes >>, the bytes of the image blob.
generateImageResume(a, r) ==
    IF r.kind = "reject"
    THEN Throw("imiji saengseong silpae: " \o r.message)
    ELSE Return(<< ImageBlock(Base64(r.body[1]), "image/png") >>, NoStructured)

(***************************************************************************)
(* The capabilities index.ts registers, in the order it registers them.    *)
(* A descriptor names its kind, its name (the URI, for a resource) and the *)
(* implementation whose schemas and handler it binds.                      *)
(***************************************************************************)
Descriptor(kind, name, impl) == [kind |-> kind, name |-> name, impl |-> impl]

\* Bootstrap with greet registered as a prompt as well.
BootstrapWithPromptGreet ==
    << Descriptor("tool", "greet", "greet"),
       Descriptor("tool", "calculator", "calculator"),
       Descriptor("tool", "time", "time"),
       Descriptor("tool", "geocode", "geocode"),
       Descriptor("tool", "get-weather", "get-weather"),
       Descriptor("tool", "generate-image", "generate-image"),
       Descriptor("prompt", "code-review", "code-review"),
       Descriptor("prompt", "greet", "greet"),
       Descriptor("resource", "server://info", "server-info") >>

Bootstrap ==
    << Descriptor("tool", "greet", "greet"),
       Descriptor("tool", "calculator", "calculator"),
       Descriptor("tool", "time", "time"),
       Descriptor("tool", "geocode", "geocode"),
       Descriptor("tool", "get-weather", "get-weather"),
       Descriptor("tool", "generate-image", "generate-image"),
       Descriptor("prompt", "code-review", "code-review"),
       Descriptor("resource", "server://info", "server-info") >>

InputSchemaOf(impl) ==
    CASE impl = "greet" -> greetInputSchema
      [] impl = "calculator" -> calculatorInputSchema
      [] impl = "time" -> timeInputSchema
      [] impl = "geocode" -> geocodeInputSchema
      [] impl = "get-weather" -> getWeatherInputSchema
      [] impl = "generate-image" -> generateImageInputSchema
      [] impl = "code-review" -> codeReviewArgsSchema
      [] impl = "server-info" -> serverInfoInputSchema

\* generate-image, the prompt and the resource declare no output schema.
OutputSchemaOf(impl) ==
    IF impl \in {"generate-image", "code-review", "server-info"}
    THEN NoOutputSchema
    ELSE TextContentOutputSchema

\* The handler up to its return, its throw or its first await.  env is what
\* the handler reads from the process: the clock, the uptime, HF_TOKEN.
StartHandler(impl, a, env) ==
    CASE impl = "greet" -> greetHandler(a)
      [] impl = "calculator" -> calculatorHandler(a)
      [] impl = "time" -> timeHandler(a, env.now)
      [] impl = "geocode" -> geocodeStart(a)
      [] impl = "get-weather" -> getWeatherStart(a)
      [] impl = "generate-image" -> generateImageStart(a, env.token)
      [] impl = "code-review" -> codeReviewHandler(a)
      [] impl = "server-info" -> serverInfoHandler(env.now, env.uptime)

\* The handler from the await on, given what the awaited call produced.
ResumeHandler(impl, a, r) ==
    CASE impl = "geocode" -> geocodeResume(a, r)
      [] impl = "get-weather" -> getWeatherResume(a, r)
      [] impl = "generate-image" -> generateImageResume(a, r)

\* Yields with the geocode handler waiting for Nominatim without yielding.
YieldsExceptGeocode(impl) == impl \in {"get-weather", "generate-image"}

\* While a handler waits at an await it has yielded to the event loop.
Yields(impl) == impl \in {"geocode", "get-weather", "generate-image"}

(***************************************************************************)
(* The registry (spec.md 4.2): descriptors in registration order, at most  *)
(* one per (kind, name).                                                   *)
(***************************************************************************)
Registered(reg, kind, name) ==
    \E i \in 1..Len(reg) : reg[i].kind = kind /\ reg[i].name = name

\* register with a later registration replacing the earlier one.
registerOverwrite(reg, descriptor) ==
    [registry |->
        [i \in 1..Len(reg) |->
            IF reg[i].kind = descriptor.kind /\ reg[i].name = descriptor.name
            THEN descriptor ELSE reg[i]]
        \o (IF Registered(reg, descriptor.kind, descriptor.name)
            THEN << >> ELSE << descriptor >>),
     call |-> [descriptor |-> descriptor, error |-> "none"]]

register(reg, descriptor) ==
    IF Registered(reg, descriptor.kind, descriptor.name)
    THEN [registry |-> reg,
          call |-> [descriptor |-> descriptor, error |-> "DuplicateCapabilityError"]]
    ELSE [registry |-> Append(reg, descriptor),
          call |-> [descriptor |-> descriptor, error |-> "none"]]

NoRegistration == [descriptor |-> Descriptor("", "", ""), error |-> "none"]

lookup(reg, kind, name) ==
    IF Registered(reg, kind, name)
    THEN [found |-> TRUE,
          descriptor |-> reg[CHOOSE i \in 1..Len(reg) : reg[i].kind = kind /\ reg[i].name = name]]
    ELSE [found |-> FALSE, descriptor |-> Descriptor(kind, name, "")]

(***************************************************************************)
(* The dispatcher (spec.md 4.3) and the envelope (spec.md 4.4).            *)
(***************************************************************************)
Success(content, structured) ==
    [tag |-> "Success", content |-> content, structured |-> structured,
     message |-> "", errors |-> << >>]
Failure(message, errors) ==
    [tag |-> "Failure", content |-> << >>, structured |-> NoStructured,
     message |-> message, errors |-> errors]

\* The response sent for an outcome.
build(outcome) ==
    IF outcome.tag = "Success"
    THEN [isError |-> FALSE, content |-> outcome.content, structuredContent |-> outcome.structured]
    ELSE [isError |-> TRUE, content |-> << TextBlock(outcome.message) >>,
          structuredContent |-> NoStructured]

\* The result carries a structured payload whose content is an array of
\* objects of the declared literal type.
Conforms(outputSchema, result) ==
    /\ result.structured.present
    /\ \A i \in 1..Len(result.structured.content) :
            result.structured.content[i].type = outputSchema.literal

\* normalize without step 4: whatever the handler returns is a Success.
normalizeNoOutputCheck(descriptor, result) ==
    IF result.tag = "throw"
    THEN Failure(result.message, << >>)
    ELSE Success(result.content, result.structured)

\* Steps 3 to 5 for a handler that has returned or thrown.
normalize(descriptor, result) ==
    IF result.tag = "throw"
    THEN Failure(result.message, << >>)
    ELSE IF OutputSchemaOf(descriptor.impl).declared
            /\ ~Conforms(OutputSchemaOf(descriptor.impl), result)
    THEN Failure("output validation error: " \o descriptor.kind \o "/" \o descriptor.name,
                 << >>)
    ELSE Success(result.content, result.structured)

StepsAfterHandler(descriptor, result) ==
    << "lookup", "validate", "handler" >>
    \o (IF result.tag = "return" /\ OutputSchemaOf(descriptor.impl).declared
        THEN << "outputValidate" >> ELSE << >>)
    \o << "envelope" >>

\* A finished invocation: the request, the record the handler was called
\* with, the steps taken, what its awaited call produced (<< >> when it
\* awaited none), the outcome and the response built from it.
Completed(req, args, steps, settled, outcome) ==
    [req |-> req, args |-> args, steps |-> steps, settled |-> settled,
     outcome |-> outcome, response |-> build(outcome)]

Request(kind, name, args) == [kind |-> kind, name |-> name, args |-> args]

NoInvocation ==
    Completed(Request("", "", NoArgs), NoArgs, << >>, << >>, Failure("", << >>))

\* The event loop is held by a handler that waits without yielding.
ImplOf(req) == lookup(registry, req.kind, req.name).descriptor.impl

Blocked == \E req \in BagToSet(inflight) : ~Yields(ImplOf(req))

(***************************************************************************)
(* The environment: the clock, the uptime, HF_TOKEN, and what the remote   *)
(* services answer.                                                        *)
(***************************************************************************)
Clock == { Instant(2026, 11, 6, 4, 17, 9), Instant(2024, 2, 29, 20, 30, 0) }

Uptimes == { Tenths(5) }

Tokens == { "", "hf_secret" }

GeocodeResponses ==
    { Rejected("fetch failed"),
      Response(500, "Internal Server Error", << >>),
      Response(200, "OK", << >>),
      Response(200, "OK",
               << [lat |-> "37.5665", lon |-> "126.9780", display_name |-> "Seoul, South Korea"] >>),
      Response(200, "OK", << [lat |-> "north", lon |-> "-33.8688", display_name |-> ""] >>) }

CurrentWeather ==
    [temperature |-> Tenths(215), weathercode |-> 3, windspeed |-> Tenths(72),
     winddirection |-> Num(180)]

DailyWeather ==
    [time |-> << Instant(2026, 11, 6, 0, 0, 0), Instant(2026, 11, 7, 0, 0, 0) >>,
     temperature_2m_max |-> << Tenths(223), Num(19) >>,
     temperature_2m_min |-> << Tenths(-15), Num(0) >>,
     precipitation_sum |-> << Num(0), Tenths(124) >>,
     weathercode |-> << 61, 4 >>]

WeatherResponses ==
    { Rejected("fetch failed"),
      Response(400, "Bad Request", << >>),
      Response(200, "OK", << >>),
      Response(200, "OK", << [current_weather |-> << >>, daily |-> << DailyWeather >>] >>),
      Response(200, "OK", << [current_weather |-> << CurrentWeather >>, daily |-> << >>] >>),
      Response(200, "OK",
               << [current_weather |-> << CurrentWeather >>, daily |-> << DailyWeather >>] >>) }

ImageResponses ==
    { Rejected("Invalid credentials in Authorization header"),
      Response(200, "OK", << << 137, 80, 78, 71 >> >>) }

ResponsesFor(impl) ==
    CASE impl = "geocode" -> GeocodeResponses
      [] impl = "get-weather" -> WeatherResponses
      [] impl = "generate-image" -> ImageResponses
      [] OTHER -> {}

(***************************************************************************)
(* The requests a client sends.                                            *)
(***************************************************************************)
GreetRequests ==
    { Request("tool", "greet", a) :
        a \in { [name |-> Str("Ann")],
                [name |-> Str("Ann"), language |-> Str("ko")],
                [name |-> Str("Ann"), language |-> Str("en")],
                [name |-> Str("Ann"), language |-> Str("fr")],
                [name |-> Str("Ann"), language |-> Str("KO")],
                [name |-> Str("Ann"), nickname |-> Str("A")],
                [language |-> Str("ko")],
                [name |-> Num(5)],
                [name |-> Num(5), language |-> Num(5)],
                NoArgs } }

CalcNumbers == { -1, 0, 5, 10 }

CalculatorRequests ==
    { Request("tool", "calculator",
              [number1 |-> Num(x), number2 |-> Num(y), operator |-> Str(op)]) :
        x \in CalcNumbers, y \in CalcNumbers, op \in {"+", "-", "*", "/"} }
    \cup
    { Request("tool", "calculator", a) :
        a \in { NoArgs,
                [number1 |-> Num(10)],
                [operator |-> Str("+")],
                [number1 |-> Num(10), number2 |-> Num(5)],
                [number1 |-> Num(10), number2 |-> Num(5), operator |-> Str("%")],
                [number1 |-> Str("10"), number2 |-> Num(5), operator |-> Str("+")],
                [number1 |-> Str("10"), number2 |-> Str("5"), operator |-> Num(1)] } }

TimeRequests ==
    { Request("tool", "time", a) :
        a \in { [timezone |-> Str("Asia/Seoul")],
                [timezone |-> Str("UTC")],
                [timezone |-> Str("America/New_York")],
                [timezone |-> Str("Mars/Phobos")],
                [timezone |-> Str("")],
                [timezone |-> Num(9)],
                NoArgs } }

GeocodeRequests ==
    { Request("tool", "geocode", a) :
        a \in { [address |-> Str("Seoul")], [address |-> Num(1)], NoArgs } }

WeatherRequests ==
    { Request("tool", "get-weather", a) :
        a \in { [latitude |-> Num(-90), longitude |-> Num(-180)],
                [latitude |-> Num(90), longitude |-> Num(180)],
                [latitude |-> Tenths(375), longitude |-> Tenths(1270), forecastDays |-> Num(1)],
                [latitude |-> Num(0), longitude |-> Num(0), forecastDays |-> Num(16)],
                [latitude |-> Num(-91), longitude |-> Num(0)],
                [latitude |-> Num(91), longitude |-> Num(0)],
                [latitude |-> Tenths(901), longitude |-> Num(0)],
                [latitude |-> Num(0), longitude |-> Num(-181)],
                [latitude |-> Num(0), longitude |-> Num(181)],
                [latitude |-> Num(0), longitude |-> Num(0), forecastDays |-> Num(0)],
                [latitude |-> Num(0), longitude |-> Num(0), forecastDays |-> Num(17)],
                [latitude |-> Num(0), longitude |-> Num(0), forecastDays |-> Tenths(15)],
                [latitude |-> Num(0), longitude |-> Num(0), forecastDays |-> Tenths(5)],
                [latitude |-> Num(91), longitude |-> Num(181), forecastDays |-> Num(17)],
                [latitude |-> Str("0"), longitude |-> Num(0)],
                [latitude |-> Num(0)],
                [forecastDays |-> Num(7)],
                NoArgs } }

ImageRequests ==
    { Request("tool", "generate-image", a) :
        a \in { [prompt |-> Str("a cat")],
                [prompt |-> Str(Rep(Rep("a", 100), 10))],
                [prompt |-> Str(Rep(Rep("a", 100), 10) \o "a")],
                [prompt |-> Str("")],
                NoArgs } }

PromptRequests ==
    { Request("prompt", "code-review", a) :
        a \in { [code |-> Str("x = 1")],
                [code |-> Str("x = 1"), language |-> Str("Python")],
                [code |-> Str("x = 1"), language |-> Str("Python"), focus |-> Str("boan")],
                [code |-> Num(1)],
                [language |-> Str("Python")],
                NoArgs } }

ResourceRequests == { Request("resource", "server://info", NoArgs) }

\* Pairs that index.ts does not register, some under a name it registers
\* for another kind.
UnknownRequests ==
    { Request("tool", "nope", NoArgs),
      Request("prompt", "greet", [name |-> Str("Ann")]),
      Request("resource", "greet", NoArgs),
      Request("tool", "code-review", [code |-> Str("x = 1")]),
      Request("tool", "server://info", NoArgs),
      Request("prompt", "server://info", NoArgs),
      Request("resource", "server://other", NoArgs) }

Requests ==
    GreetRequests \cup CalculatorRequests \cup TimeRequests \cup GeocodeRequests
    \cup WeatherRequests \cup ImageRequests \cup PromptRequests \cup ResourceRequests
    \cup UnknownRequests

(***************************************************************************)
(* The state machine.  index.ts constructs the server, registers the       *)
(* capabilities one after another and connects the transport; from then on *)
(* the client's requests are served.                                       *)
(***************************************************************************)
Init ==
    /\ registry = << >>
    /\ registered = NoRegistration
    /\ started = FALSE
    /\ hfToken \in Tokens
    /\ inflight = EmptyBag
    /\ hung = 0
    /\ last = NoInvocation

\* The event loop runs one callback at a time: it takes up the next message
\* or the next settled promise once the response of the invocation that
\* has just finished is written.
Idle == last = NoInvocation

\* server.registerTool / registerPrompt / registerResource, in source order.
RegisterNext ==
    /\ ~started
    /\ Len(registry) < Len(Bootstrap)
    /\ LET r == register(registry, Bootstrap[Len(registry) + 1])
       IN  registry' = r.registry /\ registered' = r.call
    /\ UNCHANGED <<started, hfToken, inflight, hung, last>>

\* server.connect(new StdioServerTransport())
Connect ==
    /\ ~started
    /\ Len(registry) = Len(Bootstrap)
    /\ started' = TRUE
    /\ UNCHANGED <<registry, registered, hfToken, inflight, hung, last>>

\* invoke(kind, name, rawArguments), up to the outcome or to the handler's
\* first await.
invoke(req, env) ==
    LET l == lookup(registry, req.kind, req.name)
        v == validate(InputSchemaOf(l.descriptor.impl), req.args)
        h == StartHandler(l.descriptor.impl, v.value, env)
    IN  IF ~l.found
        THEN /\ last' = Completed(req, NoArgs, << "lookup", "envelope" >>, << >>,
                            Failure("unknown capability: " \o req.kind \o "/" \o req.name, << >>))
             /\ UNCHANGED inflight
        ELSE IF ~v.valid
        THEN /\ last' = Completed(req, NoArgs, << "lookup", "validate", "envelope" >>, << >>,
                            Failure(ValidationMessage(v.errors), v.errors))
             /\ UNCHANGED inflight
        ELSE IF h.tag = "await"
        THEN /\ BagCardinality(inflight) + hung < MaxInFlight
             /\ inflight' = inflight (+) SetToBag({req})
             /\ UNCHANGED last
        ELSE /\ last' = Completed(req, v.value, StepsAfterHandler(l.descriptor, h), << >>,
                            normalize(l.descriptor, h))
             /\ UNCHANGED inflight

InvokeRequest(req) ==
    /\ started
    /\ Idle
    /\ ~Blocked
    /\ \E now \in Clock, uptime \in Uptimes :
            invoke(req, [now |-> now, uptime |-> uptime, token |-> hfToken])
    /\ UNCHANGED <<registry, registered, started, hfToken, hung>>

Invoke == \E req \in Requests : InvokeRequest(req)

\* The awaited call of a suspended invocation settles and its handler runs
\* to its end.
settle(req, r) ==
    LET l == lookup(registry, req.kind, req.name)
        v == validate(InputSchemaOf(l.descriptor.impl), req.args)
        h == ResumeHandler(l.descriptor.impl, v.value, r)
    IN  /\ last' = Completed(req, v.value, StepsAfterHandler(l.descriptor, h), << r >>,
                        normalize(l.descriptor, h))
        /\ inflight' = inflight (-) SetToBag({req})

SettleRequest(req) ==
    /\ Idle
    /\ req \in BagToSet(inflight)
    /\ Blocked => ~Yields(ImplOf(req))
    /\ \E r \in ResponsesFor(ImplOf(req)) : settle(req, r)
    /\ UNCHANGED <<registry, registered, started, hfToken, hung>>

Settle == \E req \in BagToSet(inflight) : SettleRequest(req)

\* The remote side of a suspended invocation stops answering for good: the
\* invocation stays suspended and is never settled.
Hang ==
    /\ \E req \in BagToSet(inflight) : inflight' = inflight (-) SetToBag({req})
    /\ hung' = hung + 1
    /\ UNCHANGED <<registry, registered, started, hfToken, last>>

\* The transport writes the response of the finished invocation.
Reply ==
    /\ ~Idle
    /\ last' = NoInvocation
    /\ UNCHANGED <<registry, registered, started, hfToken, inflight, hung>>

Next == RegisterNext \/ Connect \/ Invoke \/ Settle \/ Hang \/ Reply

Spec == Init /\ [][Next]_vars

(***************************************************************************)
(* The registry and the dispatcher on their own.  Registrations are drawn  *)
(* from RegistrationCandidates in any order and any number of times, and   *)
(* the handler a descriptor binds is any handler: what it returns or       *)
(* throws is drawn from HandlerResults.                                    *)
(***************************************************************************)
\* Several handlers under one (kind, name), and one name under each kind.
RegistrationCandidates ==
    { Descriptor("tool", "greet", "greet"),
      Descriptor("tool", "greet", "calculator"),
      Descriptor("prompt", "greet", "code-review"),
      Descriptor("prompt", "greet", "greet"),
      Descriptor("resource", "greet", "server-info"),
      Descriptor("tool", "calculator", "calculator"),
      Descriptor("tool", "server://info", "generate-image") }

\* Results that conform to the declared output schema and results that do
\* not: no structured payload, a block of another type, a throw.
HandlerResults ==
    { TextResult("hi"),
      Return(<< TextBlock("hi") >>, StructuredContent(<< >>)),
      Return(<< TextBlock("hi") >>, NoStructured),
      Return(<< ImageBlock("iVBORw==", "image/png") >>,
             StructuredContent(<< ImageBlock("iVBORw==", "image/png") >>)),
      Return(<< TextBlock("hi") >>,
             StructuredContent(<< TextBlock("hi"), ImageBlock("iVBORw==", "image/png") >>)),
      Throw("boom") }

RegistryRequests ==
    { Request("tool", "greet", [name |-> Str("Ann")]),
      Request("tool", "greet",
              [number1 |-> Num(10), number2 |-> Num(5), operator |-> Str("+")]),
      Request("prompt", "greet", [name |-> Str("Ann")]),
      Request("prompt", "greet", [code |-> Str("x = 1")]),
      Request("resource", "greet", NoArgs),
      Request("tool", "calculator",
              [number1 |-> Num(10), number2 |-> Num(5), operator |-> Str("+")]),
      Request("tool", "server://info", [prompt |-> Str("a cat")]),
      Request("resource", "server://info", NoArgs) }

InitReg == Init

\* register(descriptor), for any candidate, before the server is connected.
RegisterAny ==
    /\ ~started
    /\ \E d \in RegistrationCandidates :
            LET r == register(registry, d)
            IN  registry' = r.registry /\ registered' = r.call
    /\ UNCHANGED <<started, hfToken, inflight, hung, last>>

ConnectAny ==
    /\ ~started
    /\ started' = TRUE
    /\ UNCHANGED <<registry, registered, hfToken, inflight, hung, last>>

\* invoke(kind, name, rawArguments) with a handler that produces result.
invokeWith(req, result) ==
    LET l == lookup(registry, req.kind, req.name)
        v == validate(InputSchemaOf(l.descriptor.impl), req.args)
    IN  IF ~l.found
        THEN last' = Completed(req, NoArgs, << "lookup", "envelope" >>, << >>,
                        Failure("unknown capability: " \o req.kind \o "/" \o req.name, << >>))
        ELSE IF ~v.valid
        THEN last' = Completed(req, NoArgs, << "lookup", "validate", "envelope" >>, << >>,
                        Failure(ValidationMessage(v.errors), v.errors))
        ELSE last' = Completed(req, v.value, StepsAfterHandler(l.descriptor, result),
                        << result >>, normalize(l.descriptor, result))

InvokeAny ==
    /\ started
    /\ Idle
    /\ \E req \in RegistryRequests, result \in HandlerResults : invokeWith(req, result)
    /\ UNCHANGED <<registry, registered, started, hfToken, inflight, hung>>

NextReg == RegisterAny \/ ConnectAny \/ InvokeAny \/ Reply

SpecReg == InitReg /\ [][NextReg]_vars

(***************************************************************************)
(* Properties.                                                             *)
(***************************************************************************)
Finished == last # NoInvocation

Range(seq) == {seq[i] : i \in 1..Len(seq)}

RequiredFields(schema) == {schema[i].name : i \in {j \in 1..Len(schema) : schema[j].required}}

\* The request names a registered capability and gives the required fields
\* and nothing else, each within its declared constraints.
MinimalValid(req) ==
    /\ Registered(registry, req.kind, req.name)
    /\ DOMAIN req.args = RequiredFields(InputSchemaOf(ImplOf(req)))
    /\ validate(InputSchemaOf(ImplOf(req)), req.args).valid

\* The conditions under which the handler of a finished, validated
\* invocation fails, stated on the request and on what the remote side
\* answered.
HandlerFails(c) ==
    LET r == c.settled[1]
        refused == r.kind = "reject" \/ r.status < 200 \/ r.status > 299
    IN  CASE c.req.name = "calculator" ->
                c.req.args["operator"].s = "/" /\ c.req.args["number2"].n = 0
          [] c.req.name = "time" ->
                c.req.args["timezone"].s \notin {"Asia/Seoul", "UTC", "America/New_York"}
          [] c.req.name = "geocode" -> refused \/ Len(r.body) = 0
          [] c.req.name = "get-weather" ->
                \/ refused
                \/ Len(r.body) = 0
                \/ Len(r.body[1].current_weather) = 0
                \/ Len(r.body[1].daily) = 0
          [] c.req.name = "generate-image" ->
                hfToken = "" \/ (Len(c.settled) > 0 /\ r.kind = "reject")
          [] OTHER -> FALSE

\* C1 as stated: every registered capability, invoked with a minimal valid
\* argument set, yields Success and never Failure.
C1_MinimalValidAlwaysSucceeds ==
    (Finished /\ MinimalValid(last.req)) => last.outcome.tag = "Success"

\* C1 as amended: an invocation of a registered capability with a minimal
\* valid argument set always reaches its handler, and yields Success
\* exactly when the handler does not fail.  greet, code-review and
\* server://info never fail; calculator fails on a division by 0, time on a
\* timezone the runtime does not know, generate-image without HF_TOKEN or
\* on a rejected call, geocode and get-weather on a rejected fetch, a
\* non-OK status or a body without the data.  A Failure here carries no
\* field error.
C1_MinimalValidSucceedsUnlessHandlerFails ==
    (Finished /\ MinimalValid(last.req)) =>
        /\ "handler" \in Range(last.steps)
        /\ (last.outcome.tag = "Success") <=> ~HandlerFails(last)
        /\ last.outcome.tag \in {"Success", "Failure"}
        /\ last.outcome.errors = << >>

\* A minimal valid get-weather invocation has been answered and has succeeded.
C1_Witness ==
    /\ Finished
    /\ MinimalValid(last.req)
    /\ last.req.name = "get-weather"
    /\ last.outcome.tag = "Success"

TenPlusFive ==
    Request("tool", "calculator",
            [number1 |-> Num(10), number2 |-> Num(5), operator |-> Str("+")])

\* C2 as stated: calculator with {number1: 10, number2: 5, operator: +}
\* yields Success with exactly one text block whose text is 10 + 5 = 15.
C2_TextIsEquationOnly ==
    (Finished /\ last.req = TenPlusFive) =>
        /\ last.outcome.tag = "Success"
        /\ last.outcome.content = << TextBlock("10 + 5 = 15") >>

\* C2 as amended: the outcome is Success with exactly one text block, whose
\* text is the equation followed by the name of the operation in
\* parentheses, 10 + 5 = 15 (deotsem); the response is not an error and
\* carries that block.
C2_TextIsEquationAndOperation ==
    (Finished /\ last.req = TenPlusFive) =>
        /\ last.outcome.tag = "Success"
        /\ last.outcome.content = << TextBlock("10 + 5 = 15 (deotsem)") >>
        /\ ~last.response.isError
        /\ last.response.content = << TextBlock("10 + 5 = 15 (deotsem)") >>

C2_Witness ==
    /\ Finished
    /\ last.req = TenPlusFive
    /\ last.outcome.tag = "Success"
    /\ Len(last.outcome.content) = 1

\* The arguments are a well-typed division by zero.
DividesByZero(args) ==
    /\ DOMAIN args = {"number1", "number2", "operator"}
    /\ args["number1"].t = "number"
    /\ args["number2"] = Num(0)
    /\ args["operator"] = Str("/")

\* C3: a handler failure, before or after the handler suspended, ends the
\* invocation in a Failure that carries the handler's message, in an error
\* response and nothing else: calculator dividing by 0 fails with the
\* division-by-zero message whatever number1 is, time fails on an unknown
\* timezone, geocode and get-weather fail with the message of the rejected
\* fetch or of the refused request, generate-image with the message of the
\* rejected call.  Every outcome is a Success or a Failure.
C3_HandlerFailureBecomesFailure ==
    Finished =>
        LET o == last.outcome
            r == last.settled[1]
            failsWith(m) ==
                /\ o.tag = "Failure"
                /\ o.message = m
                /\ last.response.isError
                /\ last.response.content = << TextBlock(m) >>
        IN  /\ o.tag \in {"Success", "Failure"}
            /\ last.response.isError <=> (o.tag = "Failure")
            /\ (last.req.name = "calculator" /\ last.req.kind = "tool"
                    /\ DividesByZero(last.req.args))
                => failsWith("0euro nanul su eopsseumnida.")
            /\ (last.req = Request("tool", "time", [timezone |-> Str("Mars/Phobos")]))
                => failsWith("yuhyohaji aneun taimjonimnida: Mars/Phobos. IANA taimjon "
                             \o "ireumeul sayonghaejuseyo (ye: Asia/Seoul, America/New_York)")
            /\ (last.req.name = "geocode" /\ Len(last.settled) > 0 /\ r.kind = "reject")
                => failsWith("jiokoding silpae: " \o r.message)
            /\ (last.req.name = "geocode" /\ Len(last.settled) > 0 /\ r.status = 500)
                => failsWith("jiokoding silpae: Nominatim API yocheong silpae: "
                             \o "500 Internal Server Error")
            /\ (last.req.name = "get-weather" /\ Len(last.settled) > 0 /\ r.kind = "reject")
                => failsWith("nalssi jeongbo johoe silpae: " \o r.message)
            /\ (last.req.name = "generate-image" /\ Len(last.settled) > 0
                    /\ r.kind = "reject")
                => failsWith("imiji saengseong silpae: " \o r.message)

\* The division 10 / 0 has finished, in a Failure.
C3_Witness ==
    /\ Finished
    /\ last.req = Request("tool", "calculator",
                          [number1 |-> Num(10), number2 |-> Num(0), operator |-> Str("/")])
    /\ last.outcome.tag = "Failure"

\* C4: an invocation of a (kind, name) pair that is not registered, also of
\* a name registered under another kind only, ends in a Failure that names
\* the pair, in an error response, after the lookup alone: no validation
\* and no handler ran.  None of the pairs of UnknownRequests is registered.
C4_UnknownCapabilityFails ==
    Finished =>
        /\ ~Registered(registry, last.req.kind, last.req.name) =>
                /\ last.outcome.tag = "Failure"
                /\ last.outcome.message
                        = "unknown capability: " \o last.req.kind \o "/" \o last.req.name
                /\ last.response.isError
                /\ last.steps = << "lookup", "envelope" >>
                /\ last.args = NoArgs
        /\ last.req \in UnknownRequests =>
                /\ last.outcome.tag = "Failure"
                /\ "handler" \notin Range(last.steps)

\* greet, a tool, was invoked as a prompt and the invocation failed.
C4_Witness ==
    /\ Finished
    /\ last.req = Request("prompt", "greet", [name |-> Str("Ann")])
    /\ last.outcome.tag = "Failure"
    /\ last.steps = << "lookup", "envelope" >>

\* The fields of the schema that the arguments get wrong: a required one
\* left out, one of the wrong type, one that breaks a declared constraint.
Offending(schema, args) ==
    {schema[i].name : i \in {j \in 1..Len(schema) :
        LET f == schema[j]
        IN  IF f.name \notin DOMAIN args THEN f.required
            ELSE LET v == args[f.name]
                 IN  CASE f.type = "number" ->
                            \/ v.t # "number"
                            \/ (f.int /\ v.n % 10 # 0)
                            \/ (f.hasMin /\ v.n < f.min)
                            \/ (f.hasMax /\ v.n > f.max)
                       [] f.type = "string" ->
                            \/ v.t # "string"
                            \/ (f.hasMin /\ Len(v.s) < f.min)
                            \/ (f.hasMax /\ Len(v.s) > f.max)
                       [] f.type = "enum" -> v.t # "string" \/ v.s \notin f.enum}}

ErrorPaths(outcome) == {outcome.errors[i].path : i \in 1..Len(outcome.errors)}

\* C5: when the arguments of an invocation of a registered capability get
\* one or more fields wrong, the outcome is a Failure whose field errors
\* name exactly the offending fields, all of them, and whose message joins
\* all the field errors; no handler ran.  calculator without any argument
\* reports number1, number2 and operator.
C5_EveryOffendingFieldReported ==
    (Finished /\ Registered(registry, last.req.kind, last.req.name)) =>
        LET wrong == Offending(InputSchemaOf(ImplOf(last.req)), last.req.args)
        IN  /\ wrong # {} =>
                /\ last.outcome.tag = "Failure"
                /\ ErrorPaths(last.outcome) = wrong
                /\ last.outcome.message = ValidationMessage(last.outcome.errors)
                /\ last.response.content = << TextBlock(last.outcome.message) >>
                /\ "handler" \notin Range(last.steps)
            /\ wrong = {} => "handler" \in Range(last.steps)
            /\ last.req = Request("tool", "calculator", NoArgs) =>
                /\ ErrorPaths(last.outcome) = {"number1", "number2", "operator"}
                /\ last.outcome.message
                        = "invalid arguments: number1: Required; number2: Required; "
                          \o "operator: Required"

\* calculator was invoked without any argument and three errors came back.
C5_Witness ==
    /\ Finished
    /\ last.req = Request("tool", "calculator", NoArgs)
    /\ last.outcome.tag = "Failure"
    /\ Len(last.outcome.errors) = 3

\* The arguments of a get-weather call whose fields are numbers.
WeatherNumbers(args) ==
    /\ {"latitude", "longitude"} \subseteq DOMAIN args
    /\ DOMAIN args \subseteq {"latitude", "longitude", "forecastDays"}
    /\ \A n \in DOMAIN args : args[n].t = "number"

\* C6: with the other fields valid, get-weather accepts a latitude of -90
\* or 90, a longitude of -180 or 180 and a forecastDays of 1 or 16 (the
\* handler is called), and rejects a latitude of -91 or 91, a longitude of
\* -181 or 181 and a forecastDays of 0 or 17 with a Failure that names the
\* field, without calling the handler.  Only accepted calls are suspended.
C6_BoundsInclusive ==
    /\ (Finished /\ last.req.kind = "tool" /\ last.req.name = "get-weather"
            /\ WeatherNumbers(last.req.args)) =>
        LET a == last.req.args
            days == IF "forecastDays" \in DOMAIN a THEN a["forecastDays"].n ELSE 70
            latIn == a["latitude"].n >= -900 /\ a["latitude"].n <= 900
            lonIn == a["longitude"].n >= -1800 /\ a["longitude"].n <= 1800
            daysIn == days >= 10 /\ days <= 160 /\ days % 10 = 0
            rejected(field) ==
                /\ last.outcome.tag = "Failure"
                /\ field \in ErrorPaths(last.outcome)
                /\ "handler" \notin Range(last.steps)
        IN  /\ (latIn /\ lonIn /\ daysIn) =>
                    ("handler" \in Range(last.steps) /\ last.outcome.errors = << >>)
            /\ a["latitude"].n \in {-910, 910} => rejected("latitude")
            /\ a["longitude"].n \in {-1810, 1810} => rejected("longitude")
            /\ days \in {0, 170} => rejected("forecastDays")
    /\ \A req \in BagToSet(inflight) :
            req.name = "get-weather" =>
                /\ req.args["latitude"].n \in -900..900
                /\ req.args["longitude"].n \in -1800..1800

\* A call at the upper bounds of latitude and longitude reached the handler.
C6_Witness ==
    /\ Finished
    /\ last.req = Request("tool", "get-weather",
                          [latitude |-> Num(90), longitude |-> Num(180)])
    /\ "handler" \in Range(last.steps)

\* C7: when greet is invoked without language, the handler is called with
\* language en, and the outcome is the English greeting, the one of the
\* same call with language en given.
C7_LanguageDefaultsToEn ==
    (Finished /\ last.req.kind = "tool" /\ last.req.name = "greet"
        /\ DOMAIN last.req.args = {"name"} /\ last.req.args["name"].t = "string") =>
        LET name == last.req.args["name"]
            text == "Hey there, " \o name.s \o "! :wave: Nice to meet you!"
        IN  /\ last.args = [name |-> name, language |-> Str("en")]
            /\ last.outcome.tag = "Success"
            /\ last.outcome.content = << TextBlock(text) >>
            /\ last.outcome.structured = StructuredContent(<< TextBlock(text) >>)
            /\ last.outcome
                = normalize(Descriptor("tool", "greet", "greet"),
                            greetHandler([name |-> name, language |-> Str("en")]))

\* greet was invoked with a name alone and has succeeded.
C7_Witness ==
    /\ Finished
    /\ last.req = Request("tool", "greet", [name |-> Str("Ann")])
    /\ last.outcome.tag = "Success"

\* C8: the registry never holds two descriptors with the same (kind, name).
\* A register call for a pair that is already registered fails with
\* DuplicateCapabilityError and leaves the registry as it was, so the first
\* descriptor stays the one lookup returns; any other call, also one for a
\* name registered under another kind only, appends the descriptor.
C8_RegistryKeysUnique ==
    /\ [](\A i, j \in 1..Len(registry) :
            (registry[i].kind = registry[j].kind /\ registry[i].name = registry[j].name)
                => i = j)
    /\ [][(registry' # registry \/ registered' # registered) =>
            LET d == registered'.descriptor
            IN  IF Registered(registry, d.kind, d.name)
                THEN /\ registered'.error = "DuplicateCapabilityError"
                     /\ registry' = registry
                     /\ lookup(registry', d.kind, d.name)
                            = lookup(registry, d.kind, d.name)
                ELSE /\ registered'.error = "none"
                     /\ registry' = Append(registry, d)
                     /\ lookup(registry', d.kind, d.name).descriptor = d]_vars

\* A second handler for a registered pair was refused, the first is still
\* the one looked up, and the same name is registered under another kind.
C8_Witness ==
    /\ registered.error = "DuplicateCapabilityError"
    /\ registered.descriptor = Descriptor("tool", "greet", "calculator")
    /\ lookup(registry, "tool", "greet").descriptor = Descriptor("tool", "greet", "greet")
    /\ Registered(registry, "prompt", "greet")
    /\ Registered(registry, "resource", "greet")

\* C9: when the capability declares an output schema, a Success carries a
\* structured payload that conforms to it; an invocation whose handler
\* returned a result that does not conform ends in a Failure and an error
\* response, after the output validation step.
C9_NonconformingOutputFails ==
    (Finished /\ "handler" \in Range(last.steps)
        /\ OutputSchemaOf(ImplOf(last.req)).declared) =>
        LET schema == OutputSchemaOf(ImplOf(last.req))
            result == last.settled[1]
        IN  /\ last.outcome.tag = "Success" =>
                /\ Conforms(schema, last.outcome)
                /\ Conforms(schema, result)
            /\ (result.tag = "return" /\ ~Conforms(schema, result)) =>
                /\ last.outcome.tag = "Failure"
                /\ last.response.isError
                /\ "outputValidate" \in Range(last.steps)

\* A tool with an output schema of text blocks returned an image block as
\* its structured content, and the invocation failed.
C9_Witness ==
    /\ Finished
    /\ last.req.kind = "tool"
    /\ OutputSchemaOf(ImplOf(last.req)).declared
    /\ last.settled
            = << Return(<< ImageBlock("iVBORw==", "image/png") >>,
                        StructuredContent(<< ImageBlock("iVBORw==", "image/png") >>)) >>
    /\ last.outcome.tag = "Failure"

\* The invocation of req would suspend at an await.
Suspends(req) ==
    LET l == lookup(registry, req.kind, req.name)
        v == validate(InputSchemaOf(l.descriptor.impl), req.args)
    IN  /\ l.found
        /\ v.valid
        /\ \E now \in Clock, uptime \in Uptimes :
                StartHandler(l.descriptor.impl, v.value,
                             [now |-> now, uptime |-> uptime, token |-> hfToken]).tag = "await"

\* One request for every capability and for every way an invocation ends:
\* at the lookup, at the validation, in a handler that returns, in one that
\* throws, and in one that suspends.
OtherRequests ==
    { Request("tool", "greet", [name |-> Str("Ann")]),
      Request("tool", "calculator",
              [number1 |-> Num(10), number2 |-> Num(0), operator |-> Str("/")]),
      Request("tool", "calculator", NoArgs),
      Request("tool", "time", [timezone |-> Str("")]),
      Request("tool", "geocode", [address |-> Str("Seoul")]),
      Request("tool", "get-weather", [latitude |-> Num(90), longitude |-> Num(180)]),
      Request("tool", "get-weather", [latitude |-> Num(91), longitude |-> Num(0)]),
      Request("tool", "generate-image", [prompt |-> Str("a cat")]),
      Request("prompt", "code-review", [code |-> Str("x = 1")]),
      Request("resource", "server://info", NoArgs),
      Request("tool", "nope", NoArgs) }

\* C10: whatever invocations are suspended, hung or have failed, once the
\* response of the invocation that has just finished is written, each
\* request of OtherRequests can be taken up (one that suspends, while fewer
\* than MaxInFlight are outstanding) and every suspended invocation can be
\* completed; the response of a finished invocation can always be written;
\* and no suspended invocation holds the event loop.
C10_NoInvocationBlocksAnother ==
    /\ (started /\ Idle) =>
            /\ \A req \in OtherRequests :
                    (Suspends(req) => BagCardinality(inflight) + hung < MaxInFlight)
                        => ENABLED InvokeRequest(req)
            /\ \A req \in BagToSet(inflight) : ENABLED SettleRequest(req)
    /\ ~Idle => ENABLED Reply
    /\ ~Blocked

\* With one invocation hung and another suspended, a third has succeeded.
C10_Witness ==
    /\ hung >= 1
    /\ inflight # EmptyBag
    /\ Finished
    /\ last.outcome.tag = "Success"

\* The steps of an invocation, in the order of the data flow.
StepOrder == << "lookup", "validate", "handler", "outputValidate", "envelope" >>

StepIndex(step) == CHOOSE i \in 1..Len(StepOrder) : StepOrder[i] = step

\* The steps are steps of the data flow, each later in it than the one
\* before: none is repeated and none is taken out of order.
InStepOrder(steps) ==
    /\ Range(steps) \subseteq Range(StepOrder)
    /\ \A i \in 1..(Len(steps) - 1) : StepIndex(steps[i]) < StepIndex(steps[i + 1])

\* After a Failure the only step of the dispatcher is the writing of the
\* response: the outcome is not replaced by another, and no invocation is
\* added to the suspended ones.
FailureIsTerminal ==
    (Finished /\ last.outcome.tag = "Failure") =>
        /\ last' \in {last, NoInvocation}
        /\ inflight' \sqsubseteq inflight

\* The step that completes a suspended invocation takes that invocation,
\* and no other, from the suspended ones.
CompletedOnce ==
    (~Finished /\ last' # NoInvocation /\ inflight' # inflight) =>
        /\ CopiesIn(last'.req, inflight') = CopiesIn(last'.req, inflight) - 1
        /\ inflight' (+) SetToBag({last'.req}) = inflight
        /\ Len(last'.settled) = 1

\* C11: the steps of a finished invocation are taken in the order lookup,
\* input validation, handler, output validation, envelope, each at most
\* once, from the lookup to the envelope.  The handler was called only if
\* the lookup and the input validation had succeeded, and with the
\* validated, defaulted arguments: the calculator handler was never called
\* with an operator other than +, -, *, / and never reported an operator
\* it does not support.  A failed lookup or validation is followed by the
\* envelope alone, and a handler that threw by no output validation.  And
\* a Failure is terminal: its outcome is not replaced, the step after it
\* writes the response and starts or suspends nothing, while a suspended
\* invocation is completed once, leaving the suspended ones as it does.
C11_StepsInOrderFailureTerminal ==
    /\ [](Finished =>
            LET l == lookup(registry, last.req.kind, last.req.name)
                v == validate(InputSchemaOf(l.descriptor.impl), last.req.args)
                steps == last.steps
            IN  /\ InStepOrder(steps)
                /\ steps[1] = "lookup"
                /\ steps[Len(steps)] = "envelope"
                /\ "handler" \in Range(steps) =>
                        /\ l.found
                        /\ v.valid
                        /\ steps[2] = "validate"
                        /\ steps[3] = "handler"
                        /\ last.args = v.value
                /\ "outputValidate" \in Range(steps) => "handler" \in Range(steps)
                /\ ~l.found => (steps = << "lookup", "envelope" >>
                                    /\ last.outcome.tag = "Failure")
                /\ (l.found /\ ~v.valid) =>
                        (steps = << "lookup", "validate", "envelope" >>
                            /\ last.outcome.tag = "Failure")
                /\ (l.found /\ v.valid) => "handler" \in Range(steps)
                /\ last.outcome.tag = "Success" =>
                        /\ "handler" \in Range(steps)
                        /\ ("outputValidate" \in Range(steps))
                                = OutputSchemaOf(l.descriptor.impl).declared
                /\ (last.outcome.tag = "Failure" /\ "outputValidate" \in Range(steps)) =>
                        steps = StepOrder
                /\ ("handler" \in Range(steps) /\ last.req.name = "calculator") =>
                        /\ last.args["operator"].s \in {"+", "-", "*", "/"}
                        /\ last.outcome.message
                                # "jiwonhaji anneun yeonsanjaimnida: "
                                  \o last.args["operator"].s)
    /\ [][FailureIsTerminal /\ CompletedOnce]_vars

\* calculator ran through all five steps with an operator of its enum.
C11_Witness ==
    /\ Finished
    /\ last.req.name = "calculator"
    /\ last.steps = StepOrder
    /\ last.args["operator"].s = "*"
    /\ last.outcome.tag = "Success"

====
